---- MODULE Spec2Model ----
(***************************************************************************)
(* The token price history job of src/backend/scenario_01.ts (the same     *)
(* handler is listed in src/unnamed/part_000): workers take jobs off a     *)
(* non-singleton queue and run `handler`, which fetches a batch of daily   *)
(* prices, reads the max timestamp stored for the token, validates the     *)
(* batch against it, optionally deletes the token's rows and inserts the   *)
(* batch into TokenDailyPriceHistoryUsd.  Every await of the handler is    *)
(* one step; steps of different jobs interleave freely.                    *)
(***************************************************************************)
EXTENDS Integers, Sequences, FiniteSets, Bags, TLC

\* ------------------------------------------------------------- bounds
MaxDay == 3          \* days 0..MaxDay after BaseEpoch are modelled
MaxBatchLen == 2     \* longest batch the price source returns
MaxInitRows == 2     \* longest history a token starts with

\* ---------------------------------------------------------- constants
SecondsPerDay == 86400      \* addOneDay, in the unit of unixEpoch
BaseEpoch == 1687392000     \* 06/22/2023 00:00 UTC as a unix epoch
NumWorkers == 3             \* "Assume there are 3 worker instances"

Tokens == {"0xA", "0xB"}
StoredPrices == {1}    \* the price of the rows the table starts with
QuotedPrices == {2}    \* the price the source quotes for a day
PriceValues == StoredPrices \cup QuotedPrices
Days == 0..MaxDay
Jobs == {1, 2, 3}

Epoch(d) == BaseEpoch + d * SecondsPerDay
Timestamps == {Epoch(d) : d \in Days}

\* ------------------------------------------------------- pure helpers
\* new Date(timestamp * 1000): a Date is held by its whole epoch seconds
\* (every timestamp is a whole number of seconds).
NewDate(timestamp) == timestamp

\* addOneDay(date), for a date that is not null.
addOneDay(date) == date + SecondsPerDay

\* unixEpoch(date): the Date's epoch seconds.
unixEpoch(date) == date

\* One row of TokenDailyPriceHistoryUsd, without its surrogate id.
Row(token, timestamp, price) ==
    [token |-> token, timestamp |-> timestamp, price |-> price]

AllRows == {Row(t, ts, p) : t \in Tokens, ts \in Timestamps, p \in PriceValues}

\* The rows of a token in table st (a bag of rows), as a set.
RowsOf(st, token) == {r \in BagToSet(st) : r.token = token}

\* The number of rows st holds for (token, timestamp).
CopiesOf(st, token, timestamp) ==
    LET rs == {r \in RowsOf(st, token) : r.timestamp = timestamp}
        RECURSIVE Sum(_)
        Sum(S) == IF S = {} THEN 0
                  ELSE LET r == CHOOSE x \in S : TRUE
                       IN CopiesIn(r, st) + Sum(S \ {r})
    IN Sum(rs)

DatesOf(st, token) == {r.timestamp : r \in RowsOf(st, token)}

\* _min asked for instead of _max.
AggregateMin(st, token) ==
    LET ds == DatesOf(st, token)
    IN IF ds = {} THEN {} ELSE {CHOOSE d \in ds : \A e \in ds : d <= e}

\* aggregate({_max: {timestamp: true}, where: {token}}): the set holding the
\* max timestamp of the token, or {} for null (no row).
AggregateMax(st, token) ==
    LET ds == DatesOf(st, token)
    IN IF ds = {} THEN {} ELSE {CHOOSE d \in ds : \A e \in ds : e <= d}

\* prices.map(({price, timestamp}) => ({timestamp: new Date(timestamp * 1000),
\* price, token})): the rows createMany is given, in order.
CreateData(token, prices) ==
    [i \in 1..Len(prices) |->
        Row(token, NewDate(prices[i].timestamp), prices[i].price)]

\* The handler's createMany call passes no skipDuplicates option.
SkipDuplicates == FALSE

\* The unique index left out of the schema: nothing ever collides.
UniqueViolationOff(st, data) == FALSE

\* A check of the rows of one statement against each other only, not
\* against the rows already stored.
UniqueViolationInData(st, data) ==
    \E i, k \in 1..Len(data) :
        /\ i < k
        /\ data[i].token = data[k].token
        /\ data[i].timestamp = data[k].timestamp

\* @@unique([token, timestamp]): whether inserting data into st collides,
\* with a stored row or within data itself.
UniqueViolation(st, data) ==
    \/ \E i \in 1..Len(data) : CopiesOf(st, data[i].token, data[i].timestamp) > 0
    \/ \E i, k \in 1..Len(data) :
          /\ i < k
          /\ data[i].token = data[k].token
          /\ data[i].timestamp = data[k].timestamp

RECURSIVE InsertAll(_, _, _)
\* Insert data[i..] into st one row after the other; with skip, a row whose
\* (token, timestamp) is already there is left out.
InsertAll(st, data, skip) ==
    IF data = <<>> THEN st
    ELSE LET r == Head(data)
             there == CopiesOf(st, r.token, r.timestamp) > 0
         IN InsertAll(IF skip /\ there THEN st ELSE st (+) SetToBag({r}),
                      Tail(data), skip)

\* An upsert in place of createMany: a stored row with the (token, timestamp)
\* of a new row is replaced by the new row.
CreateManyUpsert(st, data, skip) ==
    LET hit == {r \in BagToSet(st) :
                  \E i \in 1..Len(data) :
                      /\ data[i].token = r.token
                      /\ data[i].timestamp = r.timestamp}
        kept == [r \in BagToSet(st) \ hit |-> CopiesIn(r, st)]
        new == InsertAll(kept, data, FALSE)
    IN [ok |-> TRUE, store |-> new, count |-> Len(data)]

\* createMany({data, skipDuplicates}): one statement, so all of it or none.
\* ok = FALSE is the unique constraint error (P2002) thrown to the caller.
CreateMany(st, data, skip) ==
    IF ~skip /\ UniqueViolation(st, data)
    THEN [ok |-> FALSE, store |-> st, count |-> 0]
    ELSE LET new == InsertAll(st, data, skip)
         IN [ok |-> TRUE, store |-> new,
             count |-> BagCardinality(new) - BagCardinality(st)]

\* The purge left out: forceRefresh is ignored.
DeleteManyNone(st, token) == [store |-> st, count |-> 0]

\* deleteMany without its where clause: the rows of every token go.
DeleteManyAll(st, token) == [store |-> EmptyBag, count |-> BagCardinality(st)]

\* deleteMany({where: {token}}).
DeleteMany(st, token) ==
    LET keep == {r \in BagToSet(st) : r.token # token}
        new == [r \in keep |-> CopiesIn(r, st)]
    IN [store |-> new, count |-> BagCardinality(st) - BagCardinality(new)]

\* ------------------------------------------------------ the price source
Points == [timestamp : Timestamps, price : QuotedPrices]

\* What apiCallToGetPrices can return: a non-empty sequence of price points,
\* ascending by timestamp (a day may be skipped).
AllBatches ==
    {b \in UNION {[1..n -> Points] : n \in 1..MaxBatchLen} :
        \A i \in 1..(Len(b) - 1) : b[i].timestamp < b[i + 1].timestamp}

\* The batches without a skipped day.
ContiguousBatches ==
    {b \in AllBatches :
        \A i \in 1..(Len(b) - 1) : b[i + 1].timestamp = addOneDay(b[i].timestamp)}

\* Batch b with every point quoted at price p.
Requoted(b, p) == [i \in 1..Len(b) |-> [timestamp |-> b[i].timestamp, price |-> p]]

\* The batches without a skipped day, at any one price: two fetches may
\* quote different prices for the same day.
RequotedBatches == {Requoted(b, p) : b \in ContiguousBatches, p \in PriceValues}

\* apiCallToGetPrices(token, startTimestamp, 'daily'): the batches of the
\* source that start at or after startTimestamp.
ApiCallToGetPrices(source, startTimestamp) ==
    {b \in source : b[1].timestamp >= startTimestamp}

\* ------------------------------------------------------------ validation
\* const nextTimestampEpoch = prices[0].timestamp
NextTimestampEpoch(prices) == prices[1].timestamp

\* The check written with < instead of !==: a batch that starts after
\* maxTimestamp plus one day is let through.
ValidationAtOrAfter(max, prices, onNull) ==
    IF max = {} THEN onNull
    ELSE LET maxTimestamp == CHOOSE d \in max : TRUE
         IN IF NextTimestampEpoch(prices) < unixEpoch(addOneDay(maxTimestamp))
            THEN {"return"} ELSE {"accept"}

\* The check written with > instead of !==: a batch that starts at or before
\* maxTimestamp is let through.
ValidationAtOrBefore(max, prices, onNull) ==
    IF max = {} THEN onNull
    ELSE LET maxTimestamp == CHOOSE d \in max : TRUE
         IN IF NextTimestampEpoch(prices) > unixEpoch(addOneDay(maxTimestamp))
            THEN {"return"} ELSE {"accept"}

\* Step 3 of the handler, as the set of its possible outcomes: "accept"
\* falls through to the writes, "return" is the early return, "throw" a
\* TypeError out of the helpers.  For a null maxTimestamp the helpers either
\* throw or give a value (NaN, or a day of 1970) that no fetched timestamp
\* equals: either way the batch is not accepted.  onNull holds the outcomes
\* the helpers of the build can produce for null.
Validation(max, prices, onNull) ==
    IF max = {} THEN onNull
    ELSE LET maxTimestamp == CHOOSE d \in max : TRUE
         IN IF NextTimestampEpoch(prices) # unixEpoch(addOneDay(maxTimestamp))
            THEN {"return"} ELSE {"accept"}

\* ----------------------------------------------------------------- state
VARIABLES
    store,          \* TokenDailyPriceHistoryUsd: a bag of rows
    pc,             \* per job: where its handler invocation stands
    job,            \* per job: the payload {forceRefresh, token, startTimestamp}
    prices,         \* per job: the fetched batch
    maxTimestamp,   \* per job: {} for null, or {the max timestamp read}
    deletedCount,   \* per job: 0 until assigned
    createdCount,   \* per job: 0 until assigned
    error,          \* per job: what the invocation threw, "none" if nothing
    onNull,         \* what the check does for a null maxTimestamp
    workers,        \* worker instances: handlers that may run at once
    njobs,          \* jobs the queue delivers
    tracked,        \* the tokens jobs are enqueued for
    source,         \* the batches the price source may return
    starts,         \* the startTimestamp values the producers enqueue
    store0          \* the table before the first job

vars == <<store, pc, job, prices, maxTimestamp, deletedCount, createdCount,
          error, onNull, workers, njobs, tracked, source, starts, store0>>

env == <<onNull, workers, njobs, tracked, source, starts, store0>>

NoJob == [token |-> "", forceRefresh |-> FALSE, startTimestamp |-> 0]

Running == {"fetch", "aggregate", "validate", "delete", "create"}
Terminal == {"written", "rejected", "failed", "abandoned"}

\* A contiguous history of len[t] days from day 0 for each token t.
History(len) ==
    SetToBag({r \in AllRows :
                /\ r.price \in StoredPrices
                /\ \E d \in 0..(len[r.token] - 1) : r.timestamp = Epoch(d)})

InitJobs ==
    /\ pc = [j \in Jobs |-> "queued"]
    /\ job = [j \in Jobs |-> NoJob]
    /\ prices = [j \in Jobs |-> <<>>]
    /\ maxTimestamp = [j \in Jobs |-> {}]
    /\ deletedCount = [j \in Jobs |-> 0]
    /\ createdCount = [j \in Jobs |-> 0]
    /\ error = [j \in Jobs |-> "none"]
    /\ store0 = store

\* Two concurrent jobs, any batch of the source.
Init ==
    /\ tracked = {"0xA"}
    /\ \E n \in 0..MaxInitRows : store = History("0xA" :> n @@ "0xB" :> 1)
    /\ source = AllBatches
    /\ starts = Timestamps
    /\ njobs = 2
    /\ workers = NumWorkers
    /\ onNull = {"throw", "return"}
    /\ InitJobs

\* Three concurrent jobs for one token whose history is day 0, the source
\* returning only batches without a skipped day, in a build whose check
\* returns early for a null maxTimestamp.
InitRace ==
    /\ tracked = {"0xA"}
    /\ store = History("0xA" :> 1 @@ "0xB" :> 1)
    /\ source = ContiguousBatches
    /\ starts = {Epoch(0)}
    /\ njobs = 3
    /\ workers = NumWorkers
    /\ onNull = {"return"}
    /\ InitJobs

\* Two concurrent jobs, the source quoting a day at one price or another.
InitPrices ==
    /\ tracked = {"0xA"}
    /\ \E n \in 0..MaxInitRows : store = History("0xA" :> n @@ "0xB" :> 1)
    /\ source = RequotedBatches
    /\ starts = {Epoch(0)}
    /\ njobs = 2
    /\ workers = NumWorkers
    /\ onNull = {"throw", "return"}
    /\ InitJobs

\* Two concurrent jobs fetching gap-free batches, for the progress of the
\* handler.
InitLive ==
    /\ tracked = {"0xA"}
    /\ \E n \in 0..MaxInitRows : store = History("0xA" :> n @@ "0xB" :> 1)
    /\ source = ContiguousBatches
    /\ starts = {Epoch(0)}
    /\ njobs = 2
    /\ workers = NumWorkers
    /\ onNull = {"throw", "return"}
    /\ InitJobs

\* Two concurrent jobs, each for either of two tracked tokens.
InitKeys ==
    /\ tracked = Tokens
    /\ \E n \in 0..MaxInitRows : store = History("0xA" :> n @@ "0xB" :> 1)
    /\ source = ContiguousBatches
    /\ starts = {Epoch(0)}
    /\ njobs = 2
    /\ workers = NumWorkers
    /\ onNull = {"throw", "return"}
    /\ InitJobs

\* One worker: the jobs run one after the other.
InitSeq ==
    /\ tracked = {"0xA"}
    /\ \E n \in 0..MaxInitRows : store = History("0xA" :> n @@ "0xB" :> 1)
    /\ source = AllBatches
    /\ starts = Timestamps
    /\ njobs = 2
    /\ workers = 1
    /\ onNull = {"throw", "return"}
    /\ InitJobs

\* ----------------------------------------------------------------- steps
Dispatched == {j \in Jobs : pc[j] # "queued"}

\* The queue hands the next job to a free worker, which calls handler with
\* the job's payload.
Dispatch(j) ==
    /\ pc[j] = "queued"
    /\ j = Cardinality(Dispatched) + 1
    /\ j <= njobs
    /\ Cardinality({k \in Jobs : pc[k] \in Running}) < workers
    /\ \E t \in tracked, f \in BOOLEAN, s \in starts :
          job' = [job EXCEPT ![j] =
                    [token |-> t, forceRefresh |-> f, startTimestamp |-> s]]
    /\ pc' = [pc EXCEPT ![j] = "fetch"]
    /\ UNCHANGED <<store, prices, maxTimestamp, deletedCount, createdCount,
                   error, env>>

\* 1. const prices = await apiCallToGetPrices(token, startTimestamp, 'daily')
Fetch(j) ==
    /\ pc[j] = "fetch"
    /\ \E b \in ApiCallToGetPrices(source, job[j].startTimestamp) :
          prices' = [prices EXCEPT ![j] = b]
    /\ pc' = [pc EXCEPT ![j] = "aggregate"]
    /\ UNCHANGED <<store, job, maxTimestamp, deletedCount, createdCount,
                   error, env>>

\* The fetch rejects: the handler throws.
FetchFails(j) ==
    /\ pc[j] = "fetch"
    /\ pc' = [pc EXCEPT ![j] = "failed"]
    /\ error' = [error EXCEPT ![j] = "FetchFailure"]
    /\ UNCHANGED <<store, job, prices, maxTimestamp, deletedCount,
                   createdCount, env>>

\* 2. const {_max: {timestamp: maxTimestamp}} = await ...aggregate(...)
Aggregate(j) ==
    /\ pc[j] = "aggregate"
    /\ maxTimestamp' =
          [maxTimestamp EXCEPT ![j] = AggregateMax(store, job[j].token)]
    /\ pc' = [pc EXCEPT ![j] = "validate"]
    /\ UNCHANGED <<store, job, prices, deletedCount, createdCount, error, env>>

\* The purge of a refresh job placed ahead of the check: the rows go
\* whatever the check says.
ValidatePurgeFirst(j) ==
    /\ pc[j] = "validate"
    /\ LET d == IF job[j].forceRefresh THEN DeleteMany(store, job[j].token)
                ELSE [store |-> store, count |-> 0]
           v == Validation(maxTimestamp[j], prices[j], onNull)
       IN /\ store' = d.store
          /\ deletedCount' = [deletedCount EXCEPT ![j] = d.count]
          /\ \/ /\ "return" \in v
                /\ pc' = [pc EXCEPT ![j] = "rejected"]
                /\ UNCHANGED error
             \/ /\ "throw" \in v
                /\ pc' = [pc EXCEPT ![j] = "failed"]
                /\ error' = [error EXCEPT ![j] = "TypeError"]
             \/ /\ "accept" \in v
                /\ pc' = [pc EXCEPT ![j] = "create"]
                /\ UNCHANGED error
    /\ UNCHANGED <<job, prices, maxTimestamp, createdCount, env>>

\* 3. the check of prices[0].timestamp against maxTimestamp plus one day;
\* then, with no await in between, forceRefresh ? deleteMany : 0.
Validate(j) ==
    /\ pc[j] = "validate"
    /\ LET v == Validation(maxTimestamp[j], prices[j], onNull)
       IN \/ /\ "return" \in v
             /\ pc' = [pc EXCEPT ![j] = "rejected"]
             /\ UNCHANGED error
          \/ /\ "throw" \in v
             /\ pc' = [pc EXCEPT ![j] = "failed"]
             /\ error' = [error EXCEPT ![j] = "TypeError"]
          \/ /\ "accept" \in v
             /\ pc' = [pc EXCEPT ![j] =
                         IF job[j].forceRefresh THEN "delete" ELSE "create"]
             /\ UNCHANGED error
    /\ UNCHANGED <<store, job, prices, maxTimestamp, deletedCount,
                   createdCount, env>>

\* 4. const deletedCount = (await ...deleteMany({where: {token}})).count
Delete(j) ==
    /\ pc[j] = "delete"
    /\ LET d == DeleteMany(store, job[j].token)
       IN /\ store' = d.store
          /\ deletedCount' = [deletedCount EXCEPT ![j] = d.count]
    /\ pc' = [pc EXCEPT ![j] = "create"]
    /\ UNCHANGED <<job, prices, maxTimestamp, createdCount, error, env>>

\* createMany retried on the same data for as long as it collides.
CreateRetry(j) ==
    /\ pc[j] = "create"
    /\ LET c == CreateMany(store, CreateData(job[j].token, prices[j]),
                           SkipDuplicates)
       IN \/ /\ c.ok
             /\ store' = c.store
             /\ createdCount' = [createdCount EXCEPT ![j] = c.count]
             /\ pc' = [pc EXCEPT ![j] = "written"]
          \/ /\ ~c.ok
             /\ UNCHANGED <<store, createdCount, pc>>
    /\ UNCHANGED <<job, prices, maxTimestamp, deletedCount, error, env>>

\* 4. const createdCount = (await ...createMany({data})).count
Create(j) ==
    /\ pc[j] = "create"
    /\ LET c == CreateMany(store, CreateData(job[j].token, prices[j]),
                           SkipDuplicates)
       IN \/ /\ c.ok
             /\ store' = c.store
             /\ createdCount' = [createdCount EXCEPT ![j] = c.count]
             /\ pc' = [pc EXCEPT ![j] = "written"]
             /\ UNCHANGED error
          \/ /\ ~c.ok
             /\ pc' = [pc EXCEPT ![j] = "failed"]
             /\ error' = [error EXCEPT ![j] = "UniqueConstraint"]
             /\ UNCHANGED <<store, createdCount>>
    /\ UNCHANGED <<job, prices, maxTimestamp, deletedCount, env>>

\* A call to the store rejects because the database cannot be reached.
StoreUnavailable(j) ==
    /\ pc[j] \in {"aggregate", "delete", "create"}
    /\ pc' = [pc EXCEPT ![j] = "failed"]
    /\ error' = [error EXCEPT ![j] = "StoreUnavailable"]
    /\ UNCHANGED <<store, job, prices, maxTimestamp, deletedCount,
                   createdCount, env>>

\* The worker running the handler dies (crash, timeout) between two steps.
Abandon(j) ==
    /\ pc[j] \in Running
    /\ pc' = [pc EXCEPT ![j] = "abandoned"]
    /\ UNCHANGED <<store, job, prices, maxTimestamp, deletedCount,
                   createdCount, error, env>>

Next ==
    \E j \in Jobs :
        \/ Dispatch(j)
        \/ Fetch(j)
        \/ FetchFails(j)
        \/ Aggregate(j)
        \/ Validate(j)
        \/ Delete(j)
        \/ Create(j)
        \/ StoreUnavailable(j)
        \/ Abandon(j)

Spec == Init /\ [][Next]_vars

SpecRace == InitRace /\ [][Next]_vars

SpecSeq == InitSeq /\ [][Next]_vars

SpecPrices == InitPrices /\ [][Next]_vars

SpecKeys == InitKeys /\ [][Next]_vars

\* One statement of the handler, its await answered by the service it calls.
HandlerStep(j) ==
    \/ Fetch(j)
    \/ Aggregate(j)
    \/ Validate(j)
    \/ Delete(j)
    \/ Create(j)

\* A handler that can take its next statement does take it, unless its
\* worker dies or the call is cut short by an outage (FetchFails,
\* StoreUnavailable): the body is straight-line code over awaits.
SpecLive ==
    InitLive /\ [][Next]_vars /\ \A j \in Jobs : WF_vars(HandlerStep(j))

\* ------------------------------------------------- one job run on its own
\* The table after handler ran from start to end on table st with nothing
\* else running and no call failing.
SerialHandler(st, token, forceRefresh, batch) ==
    IF "accept" \notin Validation(AggregateMax(st, token), batch, onNull)
    THEN st
    ELSE LET purged == IF forceRefresh THEN DeleteMany(st, token).store ELSE st
         IN CreateMany(purged, CreateData(token, batch), SkipDuplicates).store

RECURSIVE SerialRun(_, _)
\* The table after the jobs of order ran one at a time, in that order.
SerialRun(st, order) ==
    IF order = <<>> THEN st
    ELSE LET j == Head(order)
         IN SerialRun(SerialHandler(st, job[j].token, job[j].forceRefresh,
                                    prices[j]),
                      Tail(order))

\* The orders in which the jobs of J can run one at a time.
Orders(J) ==
    {o \in [1..Cardinality(J) -> J] : \A a, b \in DOMAIN o : a # b => o[a] # o[b]}

\* ---------------------------------------------------------------- claims
\* The timestamps of a batch.
BatchDates(b) == {b[i].timestamp : i \in 1..Len(b)}

\* Whether the timestamps ds are one run of days with no day missing.
IsContiguous(ds) ==
    \A d \in ds : \A e \in ds : d < e => (d + SecondsPerDay) \in ds

Finished(j) == pc[j] \in {"written", "rejected"}

\* C1: no invocation ends with a write error: a collision on the unique
\* (token, timestamp) constraint during the insert is never raised to the
\* caller, however the steps of concurrent jobs for one token interleave.
C1_NoWriteError == \A j \in Jobs : error[j] # "UniqueConstraint"

\* C2: contiguity is preserved: once every delivered job has completed
\* (written or rejected), the dates stored for each token are one contiguous
\* run of days.
C2_ContiguityPreserved ==
    (\A j \in Jobs : pc[j] \in {"queued", "written", "rejected"})
        => \A t \in Tokens : IsContiguous(DatesOf(store, t))

\* C3: refresh atomicity: there is no state in which a forceRefresh job has
\* deleted the prior rows of its token and no row of its batch is stored.
C3_RefreshAtomic ==
    \A j \in Jobs :
        (job[j].forceRefresh /\ deletedCount[j] > 0)
            => BatchDates(prices[j]) \cap DatesOf(store, job[j].token) # {}

\* C4: new-key acceptance: a job that read a null maxTimestamp (the token has
\* no rows) and ran to its end has written, and every date of its batch is
\* stored for the token.
C4_NewKeyAccepted ==
    \A j \in Jobs :
        (/\ pc[j] \in {"written", "rejected", "failed"}
         /\ error[j] \in {"none", "TypeError"}
         /\ maxTimestamp[j] = {})
            => /\ pc[j] = "written"
               /\ BatchDates(prices[j]) \subseteq DatesOf(store, job[j].token)

\* C5: in every reachable state the table holds at most one row for each
\* (token, timestamp) pair.
C5_UniqueRows ==
    \A t \in Tokens : \A ts \in Timestamps : CopiesOf(store, t, ts) <= 1

\* C5 witness: a job has written rows for a token and another job's insert
\* for the same token has collided with them.
C5_Witness ==
    \E j \in Jobs : \E k \in Jobs :
        /\ j # k
        /\ job[j].token = job[k].token
        /\ pc[j] = "written"
        /\ error[k] = "UniqueConstraint"
        /\ BatchDates(prices[j]) \cap BatchDates(prices[k]) # {}

RanToEnd(j) ==
    \/ Finished(j)
    \/ pc[j] = "failed" /\ error[j] = "UniqueConstraint"

\* Jobs j and k are two non-refresh jobs for one token with the same batch,
\* which starts at the day after the watermark the table started with, and
\* no other job has been delivered.
TwinJobs(j, k) ==
    /\ j # k
    /\ \A l \in Jobs \ {j, k} : pc[l] = "queued"
    /\ pc[j] # "queued" /\ pc[k] # "queued"
    /\ job[j].token = job[k].token
    /\ ~job[j].forceRefresh /\ ~job[k].forceRefresh
    /\ prices[j] # <<>> /\ prices[j] = prices[k]
    /\ \E d \in AggregateMax(store0, job[j].token) :
          prices[j][1].timestamp = d + SecondsPerDay

\* C7: of two concurrent non-refresh jobs for one token with identical
\* batches starting at watermark + 1, each new date is inserted by exactly
\* one: once both ran to their end the rows they inserted sum to the length
\* of the batch, each date of the batch is stored once, and both deleted 0.
C7_InsertedOnce ==
    \A j \in Jobs : \A k \in Jobs :
        (TwinJobs(j, k) /\ RanToEnd(j) /\ RanToEnd(k))
            => /\ createdCount[j] + createdCount[k] = Len(prices[j])
               /\ deletedCount[j] = 0 /\ deletedCount[k] = 0
               /\ \A ts \in BatchDates(prices[j]) :
                     CopiesOf(store, job[j].token, ts) = 1

\* C7 witness: twin jobs both validated against the same watermark; one
\* inserted the two days of the batch, the other's insert collided.
C7_Witness ==
    \E j \in Jobs : \E k \in Jobs :
        /\ TwinJobs(j, k)
        /\ maxTimestamp[j] = maxTimestamp[k]
        /\ pc[j] = "written" /\ createdCount[j] = 2
        /\ pc[k] = "failed" /\ error[k] = "UniqueConstraint"
        /\ createdCount[k] = 0

\* Job k is a second run of the completed non-refresh job j: the same
\* payload and the same batch.
Replay(j, k) ==
    /\ j # k
    /\ Finished(j)
    /\ ~job[j].forceRefresh
    /\ job[k] = job[j]
    /\ prices[k] = prices[j]

\* C8: idempotent replay: when the same non-refresh job runs a second time
\* after its first run completed, no step of the second run changes the
\* table, it inserts 0 rows, and it meets no write error.
C8_IdempotentReplay ==
    [][\A j \in Jobs : \A k \in Jobs :
          (Replay(j, k) /\ pc[k] \in Running)
              => /\ store' = store
                 /\ createdCount'[k] = 0
                 /\ error'[k] # "UniqueConstraint"]_vars

\* C8 witness: the first run wrote its batch, the second run of the same job
\* has ended and inserted nothing.
C8_Witness ==
    \E j \in Jobs : \E k \in Jobs :
        /\ Replay(j, k)
        /\ workers = 1
        /\ pc[j] = "written" /\ createdCount[j] = Len(prices[j])
        /\ pc[k] = "rejected" /\ createdCount[k] = 0

\* C9: with a watermark d read for the token, the validation step goes on to
\* the writes iff the batch's first date is d + 1 day; for every other first
\* date the handler returns without an error and the table is unchanged.
C9_ValidationGate ==
    [][\A j \in Jobs :
          (/\ pc[j] = "validate"
           /\ pc'[j] \notin {"validate", "abandoned"}
           /\ maxTimestamp[j] # {})
              => \E d \in maxTimestamp[j] :
                    IF prices[j][1].timestamp = d + SecondsPerDay
                    THEN pc'[j] \in {"delete", "create"}
                    ELSE /\ pc'[j] = "rejected"
                         /\ error'[j] = "none"
                         /\ store' = store]_vars

\* C9 witness: a job read watermark d, its batch starts at d + 2 days, and it
\* was rejected with nothing written or deleted.
C9_Witness ==
    \E j \in Jobs : \E d \in maxTimestamp[j] :
        /\ pc[j] = "rejected"
        /\ prices[j][1].timestamp = d + 2 * SecondsPerDay
        /\ error[j] = "none"
        /\ createdCount[j] = 0 /\ deletedCount[j] = 0

\* C10: an invocation ends Failed only when the price fetch failed or the
\* store was unavailable; a rejected batch and a write conflict end as a
\* successful completion.
C10_FailedOnlyOnInfrastructure ==
    \A j \in Jobs :
        pc[j] = "failed" => error[j] \in {"FetchFailure", "StoreUnavailable"}

\* The job that takes the step: the one whose pc changes.
Steps(j) == pc'[j] # pc[j]

\* C11: the continuity check is authoritative at write time: whenever a
\* non-refresh job inserts rows for a token that has rows, the first inserted
\* date is the token's watermark in the state of the insert plus one day.
C11_CheckedAtWriteTime ==
    [][\A j \in Jobs :
          (/\ pc[j] = "create" /\ pc'[j] = "written"
           /\ ~job[j].forceRefresh
           /\ DatesOf(store, job[j].token) # {})
              => \E d \in AggregateMax(store, job[j].token) :
                    prices[j][1].timestamp = d + SecondsPerDay]_vars

RECURSIVE ContiguousPrefixLen(_)
\* The length of the longest prefix of batch b without a skipped day.
ContiguousPrefixLen(b) ==
    IF Len(b) <= 1 THEN Len(b)
    ELSE IF b[2].timestamp # b[1].timestamp + SecondsPerDay THEN 1
         ELSE 1 + ContiguousPrefixLen(Tail(b))

\* C12: only a contiguous prefix of the fetched batch is committed: a job
\* whose accepted batch skips a day inserts no row dated after the first
\* gap, so it inserts at most the rows of the batch's contiguous prefix.
C12_ContiguousPrefixOnly ==
    \A j \in Jobs :
        pc[j] = "written" => createdCount[j] <= ContiguousPrefixLen(prices[j])

\* C13: a job that failed in the fetch step, or whose worker abandoned it
\* at any point, has added no row and removed no row.
C13_AbandonedLeavesNoTrace ==
    \A j \in Jobs :
        (pc[j] = "abandoned" \/ error[j] = "FetchFailure")
            => deletedCount[j] = 0 /\ createdCount[j] = 0

\* C14: a stored row is never changed in place and is removed only by a
\* forceRefresh job for its own token: every row present before a step of a
\* job with forceRefresh = false is present, with the same price, after it;
\* a step that removes a row is the deleteMany of a forceRefresh job for the
\* row's token.
C14_RowsNeverMutated ==
    [][\A j \in Jobs :
          Steps(j) =>
              \A r \in BagToSet(store) :
                  \/ CopiesIn(r, store') >= CopiesIn(r, store)
                  \/ /\ job[j].forceRefresh
                     /\ pc[j] = "delete"
                     /\ r.token = job[j].token]_vars

\* C14 witness: a non-refresh job whose batch quotes another price for a
\* stored date has tried its insert, and the row still has its old price.
C14_Witness ==
    \E j \in Jobs : \E r \in BagToSet(store) :
        /\ ~job[j].forceRefresh
        /\ error[j] = "UniqueConstraint"
        /\ r.token = job[j].token
        /\ \E i \in 1..Len(prices[j]) :
              /\ prices[j][i].timestamp = r.timestamp
              /\ prices[j][i].price # r.price

\* The rows of token t in table st, with their numbers of copies.
BagOf(st, t) == [r \in RowsOf(st, t) |-> CopiesIn(r, st)]

\* C15: when a forceRefresh job runs with no other job in flight, its
\* deleted count is the number of rows the token had before and, once it has
\* written, the token's rows are exactly the rows of its batch; a job with
\* forceRefresh = false always has a deleted count of 0.
C15_RefreshReplaces ==
    [][\A j \in Jobs :
          Steps(j) =>
              /\ (job[j].forceRefresh /\ pc[j] = "delete" /\ pc'[j] = "create")
                    => deletedCount'[j] = BagCardinality(BagOf(store, job[j].token))
              /\ (job[j].forceRefresh /\ pc'[j] = "written")
                    => /\ BagOf(store', job[j].token) =
                             SetToBag({Row(job[j].token, prices[j][i].timestamp,
                                           prices[j][i].price) :
                                         i \in 1..Len(prices[j])})
                       /\ createdCount'[j] = Len(prices[j])
              /\ ~job'[j].forceRefresh => deletedCount'[j] = 0]_vars

\* C15 witness: a forceRefresh job, run on its own, has replaced the two
\* rows of its token by its batch.
C15_Witness ==
    \E j \in Jobs :
        /\ workers = 1
        /\ job[j].forceRefresh
        /\ pc[j] = "written"
        /\ deletedCount[j] = 2
        /\ DatesOf(store, job[j].token) = BatchDates(prices[j])

\* C16: every invocation that has started ends: it writes, returns at the
\* check or fails, unless its worker died; a colliding insert is not
\* retried without end, so two jobs for one token cannot hold each other up.
C16_InvocationEnds ==
    \A j \in Jobs :
        pc[j] \in Running
            ~> pc[j] \in {"written", "rejected", "failed", "abandoned"}

\* Two jobs for one token ran concurrently to their ends, one of them with
\* a collision on the unique key.
C16_Witness ==
    \E j, k \in Jobs :
        /\ j # k
        /\ job[j].token = job[k].token
        /\ maxTimestamp[j] = maxTimestamp[k]
        /\ pc[k] = "written"
        /\ createdCount[k] > 0
        /\ pc[j] = "failed"
        /\ error[j] = "UniqueConstraint"
        /\ ~job[j].forceRefresh

\* C17: a job that was correct when enqueued is turned away once another job
\* for its token has committed: a job that read a watermark at or after the
\* first date of its batch ends at the check, with no error and with nothing
\* deleted or inserted.
C17_StaleJobRejected ==
    \A j \in Jobs : \A d \in maxTimestamp[j] :
        (/\ pc[j] \in {"delete", "create", "written", "rejected", "failed"}
         /\ prices[j][1].timestamp <= d)
            => /\ pc[j] = "rejected"
               /\ error[j] = "none"
               /\ createdCount[j] = 0
               /\ deletedCount[j] = 0

\* Job j was enqueued, before job k, with startTimestamp one day after the
\* watermark w of the table and fetched a batch starting there; k read w and
\* wrote its batch first; j then read k's last date and returned at the check.
C17_Witness ==
    \E j, k \in Jobs : \E w \in AggregateMax(store0, job[j].token) :
        /\ j < k
        /\ pc[k] = "written"
        /\ pc[j] = "rejected"
        /\ job[k].token = job[j].token
        /\ job[j].startTimestamp = w + SecondsPerDay
        /\ prices[j][1].timestamp = w + SecondsPerDay
        /\ maxTimestamp[k] = {w}
        /\ prices[k][1].timestamp = w + SecondsPerDay
        /\ maxTimestamp[j] = {prices[k][Len(prices[k])].timestamp}
        /\ createdCount[j] = 0
        /\ deletedCount[j] = 0

\* C18: an invocation for token t touches only the rows of t: across each of
\* its steps, the purge of a refresh included, the rows of every other token
\* are the same before and after, and the watermark it reads is a date of a
\* row of t.
C18_OtherKeysUntouched ==
    [][\A j \in Jobs :
          Steps(j) =>
              /\ \A r \in AllRows :
                    r.token # job[j].token
                        => CopiesIn(r, store') = CopiesIn(r, store)
              /\ (pc[j] = "aggregate" /\ pc'[j] = "validate")
                    => maxTimestamp'[j] \subseteq DatesOf(store, job[j].token)]_vars

\* A refresh job purged and rewrote one token and another job appended to a
\* second token, whose earlier rows are all still there.
C18_Witness ==
    \E j, k \in Jobs :
        /\ pc[j] = "written"
        /\ pc[k] = "written"
        /\ job[j].token # job[k].token
        /\ job[j].forceRefresh
        /\ deletedCount[j] > 0
        /\ createdCount[k] > 0
        /\ RowsOf(store0, job[k].token) # {}
        /\ RowsOf(store0, job[k].token) \subseteq RowsOf(store, job[k].token)

\* The batch of job j starts one day after the watermark j read.
PassedValidation(j) ==
    \E d \in maxTimestamp[j] : prices[j][1].timestamp = d + SecondsPerDay

\* C19: the purge of a refresh job stands behind the same check as an
\* append: a job removes rows, or counts deleted rows, only in its purge
\* step; it enters that step only from the check and only when its batch
\* starts one day after the watermark it read; it inserts nothing before the
\* purge, and a refresh job comes to its insert only from the purge.  So a
\* refresh job turned away at the check has deleted nothing.
C19_PurgeBehindValidation ==
    [][\A j \in Jobs :
          Steps(j) =>
              /\ ((\E r \in BagToSet(store) :
                       CopiesIn(r, store') < CopiesIn(r, store))
                   \/ deletedCount'[j] # deletedCount[j])
                    => pc[j] = "delete" /\ pc'[j] = "create"
              /\ pc'[j] = "delete"
                    => /\ pc[j] = "validate"
                       /\ job[j].forceRefresh
                       /\ PassedValidation(j)
              /\ pc[j] = "delete" => createdCount[j] = 0
              /\ (job[j].forceRefresh /\ pc'[j] = "create")
                    => pc[j] = "delete"
              /\ (pc[j] = "validate" /\ ~PassedValidation(j))
                    => /\ pc'[j] \in {"rejected", "failed", "abandoned"}
                       /\ store' = store
                       /\ deletedCount'[j] = 0]_vars

\* A refresh job read a watermark, fetched a batch that does not start one
\* day after it, and returned at the check: it deleted nothing and the rows
\* of its token are those the table started with.
C19_Witness ==
    \E j \in Jobs :
        /\ pc[j] = "rejected"
        /\ job[j].forceRefresh
        /\ maxTimestamp[j] # {}
        /\ ~PassedValidation(j)
        /\ deletedCount[j] = 0
        /\ RowsOf(store, job[j].token) # {}
        /\ BagOf(store, job[j].token) = BagOf(store0, job[j].token)

====
